---- MODULE Spec2Model ----
(***************************************************************************)
(* FastCDC 2020 content-defined chunker (package fastcdc): configuration   *)
(* resolution and validation, seeded gear tables and masks, the sliding    *)
(* read buffer, the cut-point search and the Next / Reset facade.          *)
(*                                                                         *)
(* A uint64 is a tuple of four 16-bit limbs, least significant first, so   *)
(* that the wrap-around arithmetic of the gear hash is exact.  Byte b of   *)
(* a table is entry b + 1 of the corresponding tuple.                      *)
(***************************************************************************)
EXTENDS Integers, Sequences, FiniteSets, TLC

\* ------------------------------------------------------------------------
\* uint64 arithmetic (modulo 2^64)
\* ------------------------------------------------------------------------
Limb == 2 ^ 16

Zero64 == <<0, 0, 0, 0>>

RECURSIVE And16(_, _)
And16(a, b) ==
  IF a = 0 \/ b = 0 THEN 0
  ELSE (a % 2) * (b % 2) + 2 * And16(a \div 2, b \div 2)

RECURSIVE Xor16(_, _)
Xor16(a, b) ==
  IF a = 0 THEN b
  ELSE IF b = 0 THEN a
  ELSE ((a + b) % 2) + 2 * Xor16(a \div 2, b \div 2)

And64(a, b) == [i \in 1..4 |-> And16(a[i], b[i])]

Xor64(a, b) == [i \in 1..4 |-> Xor16(a[i], b[i])]

\* a + b, the carry out of the top limb dropped
Add64(a, b) ==
  LET s1 == a[1] + b[1]
      s2 == a[2] + b[2] + (s1 \div Limb)
      s3 == a[3] + b[3] + (s2 \div Limb)
      s4 == a[4] + b[4] + (s3 \div Limb)
  IN  <<s1 % Limb, s2 % Limb, s3 % Limb, s4 % Limb>>

\* a << k for 0 <= k <= 2, the bits shifted out of the top limb dropped
Shl64(a, k) ==
  LET f  == 2 ^ k
      s1 == a[1] * f
      s2 == a[2] * f + (s1 \div Limb)
      s3 == a[3] * f + (s2 \div Limb)
      s4 == a[4] * f + (s3 \div Limb)
  IN  <<s1 % Limb, s2 % Limb, s3 % Limb, s4 % Limb>>

\* the uint64 value of a non-negative int below 2^31
ToU64(n) == <<n % Limb, n \div Limb, 0, 0>>

\* ------------------------------------------------------------------------
\* Package-level constants and tables
\* ------------------------------------------------------------------------
absoluteMinSize == 64

absoluteMaxSize == 2 ^ 30

defaultNormalization == 2

masks ==
  <<
    <<0,0,0,0>>, <<0,0,0,0>>,
    <<0,0,0,0>>, <<0,0,0,0>>,
    <<0,0,0,0>>, <<16656,384,0,0>>,
    <<12560,384,0,0>>, <<20736,6147,0,0>>,
    <<21248,3,24,0>>, <<12288,53,400,0>>,
    <<0,851,22784,0>>, <<0,851,55552,0>>,
    <<0,851,55553,0>>, <<0,851,55555,0>>,
    <<0,4947,55555,0>>, <<0,851,55567,0>>,
    <<28672,851,55555,0>>, <<28672,851,55559,0>>,
    <<28672,1875,55559,0>>, <<28672,1875,55575,0>>,
    <<28672,18259,55575,0>>, <<28672,26451,55575,0>>,
    <<28672,26451,55607,0>>, <<28672,30547,55607,0>>,
    <<28672,30551,55607,0>>, <<28672,30551,56119,0>>
  >>

gear ==
  <<
    <<14300,8318,15485,15197>>, <<12422,37138,26810,30797>>, <<29336,34862,34831,52562>>, <<52391,6653,36430,60111>>,
    <<25387,64465,14429,49951>>, <<44006,7717,9984,7519>>, <<55697,15514,3038,33555>>, <<30281,28315,9575,50354>>,
    <<46233,57486,39721,43570>>, <<32088,7767,52178,46719>>, <<53099,55850,47786,39>>, <<8742,51004,11610,58351>>,
    <<4791,28371,62029,2192>>, <<31870,34077,57398,43017>>, <<55323,19,65118,61606>>, <<60436,17708,25348,7426>>,
    <<9359,25742,17970,902>>, <<47540,52626,53053,52650>>, <<30806,15384,4838,62944>>, <<182,33308,63955,34914>>,
    <<28554,29967,29496,43055>>, <<2927,49611,15814,7768>>, <<42993,38723,17846,31281>>, <<2027,16456,4078,43954>>,
    <<14941,1976,15614,45387>>, <<39439,35547,10121,47580>>, <<25278,7082,62953,14083>>, <<32152,33119,47206,53003>>,
    <<56531,7849,26564,15768>>, <<61996,17451,64101,7137>>, <<12761,50518,3492,5168>>, <<23705,50772,59851,59032>>,
    <<37541,50766,4222,18275>>, <<27172,25961,8700,50776>>, <<61623,18466,27654,30233>>, <<24065,62290,59457,18523>>,
    <<20469,34199,48284,63058>>, <<58345,44265,13615,51928>>, <<59790,60213,53724,10862>>, <<26639,56337,33722,50932>>,
    <<4849,59855,35863,15613>>, <<25713,11941,15454,35256>>, <<37545,9443,23805,44646>>, <<35093,1227,50405,60467>>,
    <<29777,51710,45407,16313>>, <<8597,37983,8145,55293>>, <<61400,13379,57477,12717>>, <<58066,25569,64664,9566>>,
    <<17103,36182,46592,4330>>, <<51204,9594,18531,18160>>, <<10195,30874,50218,42285>>, <<62821,59258,57244,55978>>,
    <<65211,15751,40149,27463>>, <<46895,63805,58067,25353>>, <<63958,43551,36859,50547>>, <<31080,9647,32575,27605>>,
    <<2634,55565,21638,26464>>, <<48558,25535,2966,57677>>, <<1044,5867,55512,47035>>, <<41238,27445,42225,57080>>,
    <<65238,43695,11653,59283>>, <<64840,59660,7354,2070>>, <<61579,45716,1982,34133>>, <<39346,65491,20134,37155>>,
    <<62210,9269,53067,44400>>, <<11559,26044,43381,53897>>, <<39390,65482,33847,36437>>, <<49216,28949,28747,38610>>,
    <<3649,64614,48077,2185>>, <<4749,56466,20071,24077>>, <<60823,28771,63633,29353>>, <<5859,2528,27092,17291>>,
    <<17303,23946,60810,57167>>, <<1015,16852,7631,244>>, <<24639,36434,60163,18452>>, <<54865,22754,47820,40367>>,
    <<28847,19425,17806,65071>>, <<43328,19958,60481,17495>>, <<13076,20754,12052,1766>>, <<37580,29626,5329,48400>>,
    <<30560,24277,6370,57075>>, <<34085,57290,3561,40938>>, <<25163,27680,57831,17821>>, <<54886,6114,6294,44780>>,
    <<33739,43866,11270,4714>>, <<24882,13839,5426,45362>>, <<291,56244,5379,25922>>, <<39603,59912,49799,11623>>,
    <<54966,42347,49141,27795>>, <<55693,51894,8246,20475>>, <<44367,7143,30811,52859>>, <<53603,6303,12022,60852>>,
    <<35062,28729,21128,56464>>, <<6276,11369,39965,13919>>, <<39934,32985,22582,50752>>, <<16070,1881,25164,15572>>,
    <<22533,23932,43224,32542>>, <<29001,32949,17108,328>>, <<34440,23170,39883,2916>>, <<6384,55195,28814,48341>>,
    <<62192,64466,51298,59783>>, <<55340,7948,12647,38951>>, <<49251,5848,16011,47857>>, <<7098,48533,4252,36515>>,
    <<23725,64312,1115,53569>>, <<32048,44831,49568,10955>>, <<49119,57091,19849,58948>>, <<36857,47128,51057,41356>>,
    <<14779,45084,17053,38964>>, <<27167,65032,56583,8522>>, <<16377,8043,49563,36615>>, <<65109,48975,38833,22178>>,
    <<20423,37829,22756,38101>>, <<21195,30277,49740,16575>>, <<8395,35461,28783,37658>>, <<48466,10549,40242,12834>>,
    <<61359,56399,53493,9568>>, <<39862,21910,50307,40380>>, <<46442,34240,7225,4056>>, <<11226,22031,6113,57400>>,
    <<45781,55442,20353,49595>>, <<53975,20008,34383,45252>>, <<49763,55766,18937,16076>>, <<42590,46379,32409,20784>>,
    <<42834,55940,46728,35570>>, <<8374,47387,9507,62935>>, <<18438,62563,65311,28053>>, <<13210,21592,8533,22063>>,
    <<25414,35123,18424,49358>>, <<16600,2203,9189,18552>>, <<38290,48237,31870,58482>>, <<28858,59721,29303,23183>>,
    <<47952,45512,62470,64674>>, <<4208,61817,35477,23327>>, <<34309,51458,44959,54020>>, <<59208,51504,43903,21568>>,
    <<46497,51754,9723,12589>>, <<54645,13476,42162,4340>>, <<29811,1150,7509,36912>>, <<22814,27745,29320,15203>>,
    <<19974,31812,695,10548>>, <<32215,54249,13476,17695>>, <<50555,55323,55316,12632>>, <<55913,23451,16962,841>>,
    <<55739,58674,12281,57859>>, <<31205,35617,1643,25262>>, <<29144,12173,57612,38213>>, <<16320,45778,18494,32759>>,
    <<36230,48585,24526,148>>, <<27810,39346,48062,34660>>, <<49091,33984,50722,6942>>, <<13867,61610,64708,22752>>,
    <<17805,34701,48890,24394>>, <<50457,38407,44079,64884>>, <<49065,57228,64311,42211>>, <<29925,51909,32323,49001>>,
    <<52563,26868,19007,34545>>, <<58658,28444,15623,9378>>, <<36040,18566,52608,59173>>, <<17250,45638,29342,48956>>,
    <<7896,46028,52567,55542>>, <<5495,9556,58660,25385>>, <<6848,54702,26762,25258>>, <<63557,9883,9574,2596>>,
    <<42827,21420,6727,5771>>, <<32316,65326,45039,63369>>, <<52443,15215,25097,27699>>, <<2482,53900,62731,19688>>,
    <<43667,23272,11705,106>>, <<6796,15421,3426,38747>>, <<35931,13619,23865,6240>>, <<15473,27821,62995,23478>>,
    <<55462,504,41479,3923>>, <<15463,59369,23250,43916>>, <<43561,10156,44113,16565>>, <<35167,8309,63036,35963>>,
    <<32860,330,40830,30909>>, <<49202,63944,59892,45769>>, <<37363,10219,1176,61398>>, <<28605,33473,23028,11236>>,
    <<43660,29786,57541,55596>>, <<26041,39129,36786,2730>>, <<15125,27776,63788,11063>>, <<3704,19983,42473,35924>>,
    <<12338,3082,46825,38393>>, <<30836,17260,40874,59283>>, <<16585,27274,65167,53611>>, <<54010,9791,11142,17560>>,
    <<58755,63876,64313,57989>>, <<6611,11638,36343,30618>>, <<56606,59605,39565,62167>>, <<34018,54886,29524,53507>>,
    <<43237,58984,33444,76>>, <<17638,26800,2678,12756>>, <<11281,35792,30803,55045>>, <<62594,30917,17168,56133>>,
    <<20909,32618,8635,38769>>, <<63709,13551,52413,29653>>, <<6093,13678,41085,58423>>, <<22055,17353,30752,18354>>,
    <<54426,15937,20801,40882>>, <<5075,25893,2912,52439>>, <<18866,35355,45854,7317>>, <<19483,7115,15869,51943>>,
    <<46863,45557,33585,13529>>, <<55599,9016,14834,30798>>, <<62496,1613,15690,6241>>, <<52926,24331,56034,61912>>,
    <<24316,44677,31765,13303>>, <<4252,4843,46009,15496>>, <<61093,27567,11977,38250>>, <<3719,57517,1461,6816>>,
    <<48014,10180,55045,21760>>, <<52292,25633,22297,58220>>, <<60985,52278,53894,5060>>, <<10881,33163,41533,22100>>,
    <<43996,53601,56339,30641>>, <<24245,24461,17630,29519>>, <<35234,19052,32279,24689>>, <<8478,9834,38473,54397>>,
    <<40592,11190,42034,23315>>, <<64572,63669,38409,63334>>, <<56009,48860,44117,8678>>, <<28138,24854,46635,39766>>,
    <<32412,14713,26297,62607>>, <<44698,49382,13049,13811>>, <<36272,39559,16234,52339>>, <<2242,7361,25060,15777>>,
    <<19793,13713,19173,47063>>, <<25705,4563,15115,19785>>, <<29722,64425,19741,52774>>, <<56326,29750,62172,43473>>,
    <<10791,24652,32790,28787>>, <<62421,28307,14057,8989>>, <<36121,38787,34833,30310>>, <<54284,2730,33545,18986>>,
    <<45917,5736,24921,61927>>, <<12455,38903,9060,29539>>, <<56653,29561,32995,12304>>, <<28738,29058,59945,20525>>,
    <<25183,36658,60293,49861>>, <<48639,57263,64414,30826>>, <<45732,33936,3462,56046>>, <<2550,9862,26291,24947>>,
    <<5950,65094,13728,44558>>, <<20241,16002,32233,53664>>, <<52392,24228,35601,1947>>, <<44731,21903,37492,37801>>,
    <<947,57482,28194,64286>>, <<36304,41833,24539,60003>>, <<14940,10320,26003,53075>>, <<55168,28629,45854,52707>>,
    <<17427,54113,16929,36414>>, <<41516,27633,53464,61204>>, <<24027,61804,12499,57816>>, <<1249,17685,11050,43709>>
  >>

\* faulty variant of gearShifted: the entries are not shifted
gearNotShifted == gear

\* gearShifted[i] = gear[i] << 1, filled in by the package's init()
gearShifted == [i \in 1..256 |-> Shl64(gear[i], 1)]

\* ------------------------------------------------------------------------
\* Options: apply overrides, fill in defaults, validate
\* ------------------------------------------------------------------------
\* An Option is modelled by its constructor's name and argument.
WithMinSize(o, size) == [o EXCEPT !.minSize = size]

WithMaxSize(o, size) == [o EXCEPT !.maxSize = size]

WithNormalization(o, level) ==
  [o EXCEPT !.normalization = level, !.disableNormalization = (level = 0)]

WithSeed(o, seed) == [o EXCEPT !.seed = seed]

WithBufferSize(o, size) == [o EXCEPT !.bufSize = size]

ApplyOption(o, opt) ==
  CASE opt.kind = "WithMinSize"       -> WithMinSize(o, opt.val)
    [] opt.kind = "WithMaxSize"       -> WithMaxSize(o, opt.val)
    [] opt.kind = "WithNormalization" -> WithNormalization(o, opt.val)
    [] opt.kind = "WithSeed"          -> WithSeed(o, opt.val)
    [] opt.kind = "WithBufferSize"    -> WithBufferSize(o, opt.val)

\* for _, opt := range opts { opt(o) }
RECURSIVE ApplyOptions(_, _)
ApplyOptions(o, opts) ==
  IF opts = <<>> THEN o
  ELSE ApplyOptions(ApplyOption(o, Head(opts)), Tail(opts))

\* o := &options{averageSize: averageSize}
NewOptions(averageSize) ==
  [averageSize |-> averageSize, minSize |-> 0, maxSize |-> 0,
   normalization |-> 0, disableNormalization |-> FALSE,
   seed |-> Zero64, bufSize |-> 0]

\* faulty variant of setDefaults: minSize defaults to averageSize / 2
setDefaultsHalfMin(o) ==
  LET o1 == IF o.minSize = 0
            THEN [o EXCEPT !.minSize = o.averageSize \div 2] ELSE o
      o2 == IF o1.maxSize = 0
            THEN [o1 EXCEPT !.maxSize = o1.averageSize * 4] ELSE o1
      o3 == IF o2.bufSize = 0
            THEN [o2 EXCEPT !.bufSize = o2.maxSize * 2] ELSE o2
  IN  IF ~o3.disableNormalization /\ o3.normalization = 0
      THEN [o3 EXCEPT !.normalization = defaultNormalization] ELSE o3

setDefaults(o) ==
  LET o1 == IF o.minSize = 0
            THEN [o EXCEPT !.minSize = o.averageSize \div 4] ELSE o
      o2 == IF o1.maxSize = 0
            THEN [o1 EXCEPT !.maxSize = o1.averageSize * 4] ELSE o1
      o3 == IF o2.bufSize = 0
            THEN [o2 EXCEPT !.bufSize = o2.maxSize * 2] ELSE o2
  IN  IF ~o3.disableNormalization /\ o3.normalization = 0
      THEN [o3 EXCEPT !.normalization = defaultNormalization] ELSE o3

\* x & (x - 1) != 0 for x > 0: x is not a power of two
RECURSIVE NotPowerOfTwo(_)
NotPowerOfTwo(x) ==
  IF x = 1 THEN FALSE
  ELSE IF x % 2 = 1 THEN TRUE
  ELSE NotPowerOfTwo(x \div 2)

\* faulty variant of validate: averageSize is not compared with minSize and
\* maxSize
validateNoAverageCheck(o) ==
  IF o.averageSize < absoluteMinSize \/ o.averageSize > absoluteMaxSize
    THEN "AverageSize must be in range 64B to 1GiB"
  ELSE IF o.averageSize <= 0 \/ NotPowerOfTwo(o.averageSize)
    THEN "AverageSize must be a power of 2"
  ELSE IF o.minSize < absoluteMinSize \/ o.minSize > absoluteMaxSize
    THEN "MinSize must be in range 64B to 1GiB"
  ELSE IF o.maxSize < absoluteMinSize \/ o.maxSize > absoluteMaxSize
    THEN "MaxSize must be in range 64B to 1GiB"
  ELSE IF o.maxSize <= o.minSize
    THEN "MinSize must be less than MaxSize"
  ELSE IF ~o.disableNormalization
          /\ (o.normalization < 0 \/ o.normalization > 3)
    THEN "Normalization must be 0, 1, 2, or 3"
  ELSE IF o.bufSize <= o.maxSize
    THEN "BufferSize must be greater than MaxSize"
  ELSE "nil"

\* faulty variant of validate: a buffer of exactly maxSize bytes is accepted
validateBufNotSmaller(o) ==
  IF o.averageSize < absoluteMinSize \/ o.averageSize > absoluteMaxSize
    THEN "AverageSize must be in range 64B to 1GiB"
  ELSE IF o.averageSize <= 0 \/ NotPowerOfTwo(o.averageSize)
    THEN "AverageSize must be a power of 2"
  ELSE IF o.minSize < absoluteMinSize \/ o.minSize > absoluteMaxSize
    THEN "MinSize must be in range 64B to 1GiB"
  ELSE IF o.maxSize < absoluteMinSize \/ o.maxSize > absoluteMaxSize
    THEN "MaxSize must be in range 64B to 1GiB"
  ELSE IF o.maxSize <= o.minSize
    THEN "MinSize must be less than MaxSize"
  ELSE IF o.averageSize > o.maxSize \/ o.averageSize < o.minSize
    THEN "AverageSize must be between MinSize and MaxSize"
  ELSE IF ~o.disableNormalization
          /\ (o.normalization < 0 \/ o.normalization > 3)
    THEN "Normalization must be 0, 1, 2, or 3"
  ELSE IF o.bufSize < o.maxSize
    THEN "BufferSize must be greater than MaxSize"
  ELSE "nil"

validate(o) ==
  IF o.averageSize < absoluteMinSize \/ o.averageSize > absoluteMaxSize
    THEN "AverageSize must be in range 64B to 1GiB"
  ELSE IF o.averageSize <= 0 \/ NotPowerOfTwo(o.averageSize)
    THEN "AverageSize must be a power of 2"
  ELSE IF o.minSize < absoluteMinSize \/ o.minSize > absoluteMaxSize
    THEN "MinSize must be in range 64B to 1GiB"
  ELSE IF o.maxSize < absoluteMinSize \/ o.maxSize > absoluteMaxSize
    THEN "MaxSize must be in range 64B to 1GiB"
  ELSE IF o.maxSize <= o.minSize
    THEN "MinSize must be less than MaxSize"
  ELSE IF o.averageSize > o.maxSize \/ o.averageSize < o.minSize
    THEN "AverageSize must be between MinSize and MaxSize"
  ELSE IF ~o.disableNormalization
          /\ (o.normalization < 0 \/ o.normalization > 3)
    THEN "Normalization must be 0, 1, 2, or 3"
  ELSE IF o.bufSize <= o.maxSize
    THEN "BufferSize must be greater than MaxSize"
  ELSE "nil"

\* bits.TrailingZeros(uint(x)) for x > 0
RECURSIVE TrailingZeros(_)
TrailingZeros(x) ==
  IF x % 2 = 1 THEN 0 ELSE 1 + TrailingZeros(x \div 2)

\* the Chunker's copies of the gear tables
SeedGear(seed) ==
  IF seed # Zero64
  THEN [i \in 1..256 |-> Xor64(gear[i], seed)]
  ELSE gear

\* faulty variant of SeedGearShifted: the seed is not shifted
SeedGearShiftedPlainSeed(seed) ==
  IF seed # Zero64
  THEN [i \in 1..256 |-> Xor64(gearShifted[i], seed)]
  ELSE gearShifted

SeedGearShifted(seed) ==
  IF seed # Zero64
  THEN LET shiftedSeed == Shl64(seed, 1)
       IN  [i \in 1..256 |-> Xor64(gearShifted[i], shiftedSeed)]
  ELSE gearShifted

\* the nil *Chunker
NilChunker == [nil |-> TRUE]

\* buf is a zero-filled array of len bytes of which only a prefix has ever
\* been written: bytes holds that prefix, every byte beyond it is still 0.
MakeBuf(size) == [len |-> size, bytes |-> <<>>]

\* faulty variant of NewChunker: the lower mask bound is off by one
NewChunkerLooseBound(rd, averageSize, opts) ==
  LET o0 == ApplyOptions(NewOptions(averageSize), opts)
      o  == setDefaults(o0)
      verr == validate(o)
      normalization == IF o.disableNormalization THEN 0 ELSE o.normalization
      log2Avg   == TrailingZeros(o.averageSize)
      smallBits == log2Avg + normalization
      largeBits == log2Avg - normalization
      maskS == masks[smallBits + 1]
      maskL == masks[largeBits + 1]
  IN  IF verr # "nil" THEN [chunker |-> NilChunker, err |-> verr]
      ELSE IF smallBits > 25 \/ largeBits < 4
        THEN [chunker |-> NilChunker,
              err |-> "AverageSize/Normalization combination exceeds mask table bounds"]
      ELSE [chunker |->
              [minSize          |-> o.minSize,
               maxSize          |-> o.maxSize,
               normalizeSize    |-> o.averageSize,
               maskSmall        |-> maskS,
               maskLarge        |-> maskL,
               maskSmallShifted |-> Shl64(maskS, 1),
               maskLargeShifted |-> Shl64(maskL, 1),
               gear             |-> SeedGear(o.seed),
               gearShifted      |-> SeedGearShifted(o.seed),
               reader           |-> rd,
               buf              |-> MakeBuf(o.bufSize),
               bufCursor        |-> o.bufSize,
               bufEnd           |-> o.bufSize,
               streamPos        |-> 0,
               readerEOF        |-> FALSE],
            err |-> "nil"]

NewChunker(rd, averageSize, opts) ==
  LET o0 == ApplyOptions(NewOptions(averageSize), opts)
      o  == setDefaults(o0)
      verr == validate(o)
      normalization == IF o.disableNormalization THEN 0 ELSE o.normalization
      log2Avg   == TrailingZeros(o.averageSize)
      smallBits == log2Avg + normalization
      largeBits == log2Avg - normalization
      maskS == masks[smallBits + 1]
      maskL == masks[largeBits + 1]
  IN  IF verr # "nil" THEN [chunker |-> NilChunker, err |-> verr]
      ELSE IF smallBits > 25 \/ largeBits < 5
        THEN [chunker |-> NilChunker,
              err |-> "AverageSize/Normalization combination exceeds mask table bounds"]
      ELSE [chunker |->
              [minSize          |-> o.minSize,
               maxSize          |-> o.maxSize,
               normalizeSize    |-> o.averageSize,
               maskSmall        |-> maskS,
               maskLarge        |-> maskL,
               maskSmallShifted |-> Shl64(maskS, 1),
               maskLargeShifted |-> Shl64(maskL, 1),
               gear             |-> SeedGear(o.seed),
               gearShifted      |-> SeedGearShifted(o.seed),
               reader           |-> rd,
               buf              |-> MakeBuf(o.bufSize),
               bufCursor        |-> o.bufSize,
               bufEnd           |-> o.bufSize,
               streamPos        |-> 0,
               readerEOF        |-> FALSE],
            err |-> "nil"]

\* ------------------------------------------------------------------------
\* The byte source (an io.Reader owned by the caller) and io.ReadFull
\* ------------------------------------------------------------------------
\* A source delivers content[1..limit], at most steps[k] bytes in its k-th
\* Read (steps is used cyclically), then
\* reports its terminal condition on every later Read: io.EOF at the end of
\* the content, or failErr once failAt bytes have been delivered.  With
\* withData the terminal condition comes with the read that delivers the
\* last bytes, otherwise with the following read of 0 bytes.  reads counts
\* the Read calls served and lastErr is what the latest one returned.
NoFail == 0 - 1

SourceLimit(r) == IF r.failAt = NoFail THEN Len(r.content) ELSE r.failAt

SourceTerminal(r) == IF r.failAt = NoFail THEN "EOF" ELSE r.failErr

Min(a, b) == IF a < b THEN a ELSE b

Max(a, b) == IF a > b THEN a ELSE b

\* r.Read(p) with len(p) = want > 0
Read(r, want) ==
  LET step == r.steps[(r.reads % Len(r.steps)) + 1]
      n   == Min(Min(want, step), SourceLimit(r) - r.pos)
      err == IF n = 0 \/ (r.withData /\ r.pos + n = SourceLimit(r))
             THEN SourceTerminal(r) ELSE "nil"
  IN  [n    |-> n,
       err  |-> err,
       data |-> SubSeq(r.content, r.pos + 1, r.pos + n),
       reader |-> [r EXCEPT !.pos = r.pos + n, !.reads = r.reads + 1,
                            !.lastErr = err]]

\* io.ReadAtLeast(r, buf, len(buf)): read until want bytes or an error.
\* ReadLoop is the loop test, ReadMore the rest of one iteration after its
\* Read (rd) and the conversion of the error after the loop.
RECURSIVE ReadLoop(_, _, _)
RECURSIVE ReadMore(_, _, _)
ReadLoop(r, want, got) ==
  IF Len(got) >= want
  THEN [n |-> Len(got), err |-> "nil", data |-> got, reader |-> r]
  ELSE ReadMore(want, got, Read(r, want - Len(got)))

ReadMore(want, got, rd) ==
  IF rd.err = "nil" THEN ReadLoop(rd.reader, want, got \o rd.data)
  ELSE [n |-> Len(got) + rd.n,
        err |-> IF Len(got) + rd.n >= want THEN "nil"
                ELSE IF Len(got) + rd.n > 0 /\ rd.err = "EOF"
                     THEN "ErrUnexpectedEOF"
                ELSE rd.err,
        data |-> got \o rd.data,
        reader |-> rd.reader]

\* faulty variant of ReadFull: a single Read, whatever its size
ReadFullSingleRead(r, want) == Read(r, want)

ReadFull(r, want) == ReadLoop(r, want, <<>>)

\* ------------------------------------------------------------------------
\* The sliding buffer
\* ------------------------------------------------------------------------
\* buf[i], 0-based
BufAt(buf, i) == IF i < Len(buf.bytes) THEN buf.bytes[i + 1] ELSE 0

\* buf[lo:hi]
BufSlice(buf, lo, hi) == [i \in 1..(hi - lo) |-> BufAt(buf, lo + i - 1)]

\* copy(buf[at:], data)
BufWrite(buf, at, data) ==
  [buf EXCEPT !.bytes =
     [i \in 1..Max(Len(buf.bytes), at + Len(data)) |->
        IF i > at /\ i <= at + Len(data)
        THEN data[i - at] ELSE BufAt(buf, i - 1)]]

\* faulty variant of AfterRead: the valid window is not cut back to the bytes
\* obtained
AfterReadNoTruncate(c, availableToRead, rf) ==
  IF rf.err = "EOF" \/ rf.err = "ErrUnexpectedEOF"
  THEN [c |-> [c EXCEPT !.buf = BufWrite(c.buf, availableToRead, rf.data),
                        !.reader = rf.reader,
                        !.readerEOF = TRUE],
        err |-> "nil"]
  ELSE [c |-> [c EXCEPT !.buf = BufWrite(c.buf, availableToRead, rf.data),
                        !.reader = rf.reader],
        err |-> rf.err]

\* faulty variant of AfterRead: only io.EOF counts as the end of the source
AfterReadEOFOnly(c, availableToRead, rf) ==
  IF rf.err = "EOF"
  THEN [c |-> [c EXCEPT !.buf = BufWrite(c.buf, availableToRead, rf.data),
                        !.reader = rf.reader,
                        !.bufEnd = availableToRead + rf.n,
                        !.readerEOF = TRUE],
        err |-> "nil"]
  ELSE [c |-> [c EXCEPT !.buf = BufWrite(c.buf, availableToRead, rf.data),
                        !.reader = rf.reader],
        err |-> rf.err]

\* fillBuffer from its ReadFull call (rf is what the call returned) on
AfterRead(c, availableToRead, rf) ==
  IF rf.err = "EOF" \/ rf.err = "ErrUnexpectedEOF"
  THEN [c |-> [c EXCEPT !.buf = BufWrite(c.buf, availableToRead, rf.data),
                        !.reader = rf.reader,
                        !.bufEnd = availableToRead + rf.n,
                        !.readerEOF = TRUE],
        err |-> "nil"]
  ELSE [c |-> [c EXCEPT !.buf = BufWrite(c.buf, availableToRead, rf.data),
                        !.reader = rf.reader],
        err |-> rf.err]

\* faulty variant of Refill: the source is read whether or not its end has
\* been observed
RefillAlwaysRead(c, availableToRead) ==
  AfterRead(c, availableToRead,
            ReadFull(c.reader, c.buf.len - availableToRead))

\* fillBuffer after the compacting copy
Refill(c, availableToRead) ==
  IF c.readerEOF
  THEN [c |-> [c EXCEPT !.bufEnd = availableToRead], err |-> "nil"]
  ELSE AfterRead(c, availableToRead,
                 ReadFull(c.reader, c.buf.len - availableToRead))

\* faulty variant of Compact: the unread tail is not copied to the start of
\* the buffer
CompactNoCopy(c, availableToRead) == [c EXCEPT !.bufCursor = 0]

\* _ = copy(c.buf[:availableToRead], c.buf[c.bufCursor:]); c.bufCursor = 0
Compact(c, availableToRead) ==
  [c EXCEPT !.buf = BufWrite(c.buf, 0,
                      BufSlice(c.buf, c.bufCursor, c.bufCursor + availableToRead)),
            !.bufCursor = 0]

\* faulty variant of fillBuffer: a window of minSize bytes is taken as enough
fillBufferMinThreshold(c) ==
  IF c.bufEnd - c.bufCursor >= c.minSize THEN [c |-> c, err |-> "nil"]
  ELSE Refill(Compact(c, c.bufEnd - c.bufCursor), c.bufEnd - c.bufCursor)

\* faulty variant of fillBuffer: the buffer is refilled only once it is empty
fillBufferWhenEmpty(c) ==
  IF c.bufEnd - c.bufCursor > 0 THEN [c |-> c, err |-> "nil"]
  ELSE Refill(Compact(c, c.bufEnd - c.bufCursor), c.bufEnd - c.bufCursor)

fillBuffer(c) ==
  IF c.bufEnd - c.bufCursor >= c.maxSize THEN [c |-> c, err |-> "nil"]
  ELSE Refill(Compact(c, c.bufEnd - c.bufCursor), c.bufEnd - c.bufCursor)

\* ------------------------------------------------------------------------
\* The cut-point search
\* ------------------------------------------------------------------------
\* x &^ 1
RoundDownEven(x) == x - (x % 2)

\* One scan loop, for i := i; i < to; i += 2: cut is the length returned
\* from inside the loop, or -1 when the loop ends without returning.
\* ScanOdd is the second half of an iteration, fp1 the fingerprint after
\* the first byte of the pair.
RECURSIVE ScanPairs(_, _, _, _, _, _, _)
RECURSIVE ScanOdd(_, _, _, _, _, _, _)
ScanPairs(c, data, i, to, fingerprint, mask, maskShifted) ==
  IF i >= to THEN [cut |-> 0 - 1, fp |-> fingerprint]
  ELSE ScanOdd(c, data, i, to,
               Add64(Shl64(fingerprint, 2), c.gearShifted[data[i + 1] + 1]),
               mask, maskShifted)

ScanOdd(c, data, i, to, fp1, mask, maskShifted) ==
  IF And64(fp1, maskShifted) = Zero64 THEN [cut |-> i, fp |-> fp1]
  ELSE IF And64(Add64(fp1, c.gear[data[i + 2] + 1]), mask) = Zero64
    THEN [cut |-> i + 1, fp |-> Add64(fp1, c.gear[data[i + 2] + 1])]
  ELSE ScanPairs(c, data, i + 2, to, Add64(fp1, c.gear[data[i + 2] + 1]),
                 mask, maskShifted)

\* cut after the second loop (large is its outcome)
CutForced(maxBoundary, large) ==
  IF large.cut # 0 - 1 THEN [length |-> large.cut, fp |-> large.fp]
  ELSE [length |-> maxBoundary, fp |-> large.fp]

\* faulty variant of CutLarge: the second loop tests the small mask too
CutLargeSmallMask(c, data, maxBoundary, normalizeAt, small) ==
  IF small.cut # 0 - 1 THEN [length |-> small.cut, fp |-> small.fp]
  ELSE CutForced(maxBoundary,
         ScanPairs(c, data, normalizeAt, RoundDownEven(maxBoundary), small.fp,
                   c.maskSmall, c.maskSmallShifted))

\* cut after the first loop (small is its outcome)
CutLarge(c, data, maxBoundary, normalizeAt, small) ==
  IF small.cut # 0 - 1 THEN [length |-> small.cut, fp |-> small.fp]
  ELSE CutForced(maxBoundary,
         ScanPairs(c, data, normalizeAt, RoundDownEven(maxBoundary), small.fp,
                   c.maskLarge, c.maskLargeShifted))

\* cut once maxBoundary and normalizeBoundary are known
CutScan(c, data, maxBoundary, normalizeBoundary) ==
  CutLarge(c, data, maxBoundary, RoundDownEven(normalizeBoundary),
    ScanPairs(c, data, RoundDownEven(c.minSize),
              RoundDownEven(normalizeBoundary), Zero64,
              c.maskSmall, c.maskSmallShifted))

\* faulty variant of cut: no cap at maxSize, the forced cut is the end of the
\* region
cutWholeRegion(c, data) ==
  IF Len(data) <= c.minSize THEN [length |-> Len(data), fp |-> Zero64]
  ELSE CutScan(c, data, Len(data), Min(Len(data), c.normalizeSize))

\* faulty variant of cut: the hard cap is the average size
cutCapAtAverage(c, data) ==
  IF Len(data) <= c.minSize THEN [length |-> Len(data), fp |-> Zero64]
  ELSE CutScan(c, data, Min(Len(data), c.normalizeSize),
               Min(Min(Len(data), c.maxSize), c.normalizeSize))

cut(c, data) ==
  IF Len(data) <= c.minSize THEN [length |-> Len(data), fp |-> Zero64]
  ELSE CutScan(c, data, Min(Len(data), c.maxSize),
               Min(Min(Len(data), c.maxSize), c.normalizeSize))

\* ------------------------------------------------------------------------
\* The facade: Next and Reset
\* ------------------------------------------------------------------------
\* Chunk{}
EmptyChunk == [Offset |-> 0, Length |-> 0, Data |-> <<>>, Fingerprint |-> Zero64]

\* faulty variant of Emit: the cursor moves one byte past the chunk
EmitSkipsByte(f, ct) ==
  [c |-> [f EXCEPT !.bufCursor = f.bufCursor + ct.length + 1,
                   !.streamPos = f.streamPos + ct.length],
   chunk |-> [Offset |-> f.streamPos,
              Length |-> ct.length,
              Data |-> BufSlice(f.buf, f.bufCursor, f.bufCursor + ct.length),
              Fingerprint |-> ct.fp],
   err |-> "nil"]

\* faulty variant of Emit: Data runs to the end of the valid window
EmitWholeWindow(f, ct) ==
  [c |-> [f EXCEPT !.bufCursor = f.bufCursor + ct.length,
                   !.streamPos = f.streamPos + ct.length],
   chunk |-> [Offset |-> f.streamPos,
              Length |-> ct.length,
              Data |-> BufSlice(f.buf, f.bufCursor, f.bufEnd),
              Fingerprint |-> ct.fp],
   err |-> "nil"]

\* faulty variant of Emit: Offset is taken after streamPos has advanced
EmitLateOffset(f, ct) ==
  [c |-> [f EXCEPT !.bufCursor = f.bufCursor + ct.length,
                   !.streamPos = f.streamPos + ct.length],
   chunk |-> [Offset |-> f.streamPos + ct.length,
              Length |-> ct.length,
              Data |-> BufSlice(f.buf, f.bufCursor, f.bufCursor + ct.length),
              Fingerprint |-> ct.fp],
   err |-> "nil"]

\* faulty variant of Emit: neither the cursor nor the stream position moves
EmitKeepsCursor(f, ct) ==
  [c |-> f,
   chunk |-> [Offset |-> f.streamPos,
              Length |-> ct.length,
              Data |-> BufSlice(f.buf, f.bufCursor, f.bufCursor + ct.length),
              Fingerprint |-> ct.fp],
   err |-> "nil"]

\* Next from the construction of the chunk on (ct is what cut returned)
Emit(f, ct) ==
  [c |-> [f EXCEPT !.bufCursor = f.bufCursor + ct.length,
                   !.streamPos = f.streamPos + ct.length],
   chunk |-> [Offset |-> f.streamPos,
              Length |-> ct.length,
              Data |-> BufSlice(f.buf, f.bufCursor, f.bufCursor + ct.length),
              Fingerprint |-> ct.fp],
   err |-> "nil"]

\* faulty variant of NextFilled: no test for the empty window
NextFilledNoEOFCheck(fb) ==
  IF fb.err # "nil" THEN [c |-> fb.c, chunk |-> EmptyChunk, err |-> fb.err]
  ELSE Emit(fb.c, cut(fb.c, BufSlice(fb.c.buf, fb.c.bufCursor, fb.c.bufEnd)))

\* Next after its fillBuffer call (fb is the Chunker and the error it left)
NextFilled(fb) ==
  IF fb.err # "nil" THEN [c |-> fb.c, chunk |-> EmptyChunk, err |-> fb.err]
  ELSE IF fb.c.bufEnd = 0
    THEN [c |-> fb.c, chunk |-> EmptyChunk, err |-> "EOF"]
  ELSE Emit(fb.c, cut(fb.c, BufSlice(fb.c.buf, fb.c.bufCursor, fb.c.bufEnd)))

ChunkerNext(c) == NextFilled(fillBuffer(c))

\* faulty variant of Reset: the valid window is left as it is
ResetKeepWindow(c, rd) ==
  [c EXCEPT !.reader = rd, !.streamPos = 0, !.readerEOF = FALSE]

\* faulty variant of Reset: the exhaustion flag is not cleared
ResetKeepEOF(c, rd) ==
  [c EXCEPT !.reader = rd, !.streamPos = 0,
            !.bufCursor = c.buf.len, !.bufEnd = c.buf.len]

Reset(c, rd) ==
  [c EXCEPT !.reader = rd, !.streamPos = 0, !.readerEOF = FALSE,
            !.bufCursor = c.buf.len, !.bufEnd = c.buf.len]

\* ------------------------------------------------------------------------
\* Model bounds and the inputs drawn from them
\* ------------------------------------------------------------------------
\* longest stream fed to a Chunker
MaxLen == 200

\* a stream shorter than every minSize
ShortLen == 10

\* a stream one byte shorter than the smallest minSize
NearMinLen == 63

\* Next calls made on one stream
MaxCalls == 6

\* Reset calls made on one Chunker
MaxResets == 1

\* length of the streams made of one repeated byte value
ConstLen == 600

\* byte i (1-based) of the stream with pattern number k
PatternByte(k, i) == (i * i * k + 7 * i + k) % 256

Pattern(k, n) == [i \in 1..n |-> PatternByte(k, i)]

PatternIds == {5, 34, 61}

Contents ==
  {<<>>} \cup {Pattern(k, n) : k \in PatternIds, n \in {ShortLen, NearMinLen, MaxLen}}

\* a stream of n bytes of value b
Repeated(b, n) == [i \in 1..n |-> b]

\* the byte values of the constant streams
ConstantBytes == {0, 9}

\* how many bytes successive Read calls deliver at most (cyclic)
ReadSchedules == {<<MaxLen + 1>>, <<7>>, <<1, 64, 3>>}

Source(content, steps, withData, failAt, failErr) ==
  [content |-> content, steps |-> steps, withData |-> withData,
   failAt |-> failAt, failErr |-> failErr,
   pos |-> 0, reads |-> 0, lastErr |-> "nil"]

\* sources that deliver all of their content and then io.EOF
CleanSources ==
  {Source(d, s, w, NoFail, "EOF") :
     d \in Contents, s \in ReadSchedules, w \in BOOLEAN}

\* sources whose Read fails after failAt bytes
FailingSources ==
  {Source(Pattern(k, MaxLen), s, w, at, e) :
     k \in {5}, s \in {<<MaxLen + 1>>, <<7>>}, w \in BOOLEAN,
     at \in {0, 81, 100}, e \in {"ErrBoom", "ErrUnexpectedEOF"}}

\* sources of one repeated byte value
ConstantSources ==
  {Source(Repeated(b, ConstLen), s, FALSE, NoFail, "EOF") :
     b \in ConstantBytes, s \in {<<ConstLen + 1>>, <<7>>}}

Sources == CleanSources \cup FailingSources \cup ConstantSources

\* the sources handed to Reset
ResetSources ==
  {Source(d, <<7>>, FALSE, NoFail, "EOF") :
     d \in {<<>>, Pattern(61, ShortLen), Pattern(61, MaxLen)}}
  \cup {Source(Pattern(5, MaxLen), <<MaxLen + 1>>, TRUE, 100, "ErrBoom")}

Opt(kind, val) == [kind |-> kind, val |-> val]

Call(averageSize, opts) == [averageSize |-> averageSize, opts |-> opts]

\* the configurations whose streams are explored
StreamCalls ==
  { Call(64,  <<Opt("WithMinSize", 64), Opt("WithMaxSize", 80),
                Opt("WithNormalization", 0), Opt("WithBufferSize", 81)>>),
    Call(64,  <<Opt("WithMinSize", 64), Opt("WithMaxSize", 80),
                Opt("WithNormalization", 1), Opt("WithSeed", ToU64(4660))>>),
    Call(128, <<Opt("WithMinSize", 65), Opt("WithMaxSize", 140),
                Opt("WithNormalization", 0), Opt("WithBufferSize", 141)>>),
    Call(128, <<Opt("WithMinSize", 64), Opt("WithMaxSize", 140),
                Opt("WithNormalization", 1), Opt("WithBufferSize", 141)>>),
    Call(256, <<Opt("WithMinSize", 250), Opt("WithMaxSize", 270),
                Opt("WithNormalization", 1), Opt("WithBufferSize", 271)>>) }

\* ------------------------------------------------------------------------
\* State
\* ------------------------------------------------------------------------
VARIABLES
  pc,       \* "new" before NewChunker has returned, "built" after
  call,     \* the arguments NewChunker is called with
  chunker,  \* the *Chunker NewChunker returned, its source included
  err,      \* the error NewChunker returned
  results,  \* what Next returned, call by call, since construction or Reset
  resets,   \* Reset calls made so far
  peer,     \* a second Chunker of the process: its call, itself, its results
  pkg,      \* the package-level variables gear and gearShifted
  recovered \* the latest Reset followed a Next call that returned a read error

vars == <<pc, call, chunker, err, results, resets, peer, pkg, recovered>>

\* the package-level tables as the package's init leaves them
PackageTables == [gear |-> gear, gearShifted |-> gearShifted]

\* no second Chunker has been asked for
NoPeer ==
  [call |-> Call(0, <<>>), chunker |-> NilChunker, results |-> <<>>,
   resets |-> 0]

\* the state after a successful construction over a fresh source
Init ==
  /\ pc = "built"
  /\ call \in StreamCalls
  /\ \E rd \in Sources :
       chunker = NewChunker(rd, call.averageSize, call.opts).chunker
  /\ err = "nil"
  /\ results = <<>>
  /\ resets = 0
  /\ peer = NoPeer
  /\ pkg = PackageTables
  /\ recovered = FALSE

NextStep ==
  /\ pc = "built"
  /\ chunker # NilChunker
  /\ Len(results) < MaxCalls
  /\ \E r \in {ChunkerNext(chunker)} :
       /\ chunker' = r.c
       /\ results' = Append(results, [chunk |-> r.chunk, err |-> r.err])
  /\ UNCHANGED <<pc, call, err, resets, peer, pkg, recovered>>

ResetStep ==
  /\ pc = "built"
  /\ chunker # NilChunker
  /\ resets < MaxResets
  /\ \E rd \in ResetSources : chunker' = Reset(chunker, rd)
  /\ results' = <<>>
  /\ resets' = resets + 1
  /\ recovered' = (\E i \in 1..Len(results) : results[i].err \notin {"nil", "EOF"})
  /\ UNCHANGED <<pc, call, err, peer, pkg>>

Next ==
  \/ NextStep
  \/ ResetStep

Spec == Init /\ [][Next]_vars

\* ------------------------------------------------------------------------
\* Construction on its own: every call of NewChunker drawn from CfgCalls
\* ------------------------------------------------------------------------
AverageSizes == {0 - 128, 0, 32, 64, 96, 128, 256, 2 ^ 22, 2 ^ 23, 2 ^ 26,
                 2 ^ 30, 2 ^ 30 + 1}

MinSizes == {0, 63, 64, 65, 2 ^ 30 + 1}

MaxSizes == {0, 64, 127, 256, 2 ^ 30, 2 ^ 30 + 1}

Normalizations == {0 - 1, 0, 1, 3, 4}

\* uint64 seeds: 0, a small one, and one with its top bit set
Seeds == {Zero64, ToU64(666), <<1, 0, 0, 2 ^ 15>>}

BufSizes == {0, 256, 257, 2 ^ 30 + 1, 2 ^ 30 + 2}

\* at most one option of a kind: absent, or present with one of the values
OneOpt(kind, vals) == {<<>>} \cup {<<Opt(kind, v)>> : v \in vals}

OptionLists ==
  {mn \o mx \o nm \o sd \o bf :
     mn \in OneOpt("WithMinSize", MinSizes),
     mx \in OneOpt("WithMaxSize", MaxSizes),
     nm \in OneOpt("WithNormalization", Normalizations),
     sd \in OneOpt("WithSeed", Seeds),
     bf \in OneOpt("WithBufferSize", BufSizes)}

\* Go's int has 64 bits; the calls explored keep averageSize * 4 and
\* maxSize * 2 below 2^31
InIntRange(cl) ==
  LET o == ApplyOptions(NewOptions(cl.averageSize), cl.opts)
  IN  /\ (o.maxSize = 0 => cl.averageSize <= 2 ^ 28)
      /\ (o.bufSize = 0 =>
            IF o.maxSize = 0 THEN cl.averageSize <= 2 ^ 27
            ELSE o.maxSize <= 2 ^ 29)

CfgCalls ==
  {cl \in {Call(a, os) : a \in AverageSizes, os \in OptionLists} :
     InIntRange(cl)}

EmptySource == Source(<<>>, <<1>>, FALSE, NoFail, "EOF")

InitCfg ==
  /\ pc = "new"
  /\ call \in CfgCalls
  /\ chunker = NilChunker
  /\ err = "nil"
  /\ results = <<>>
  /\ resets = 0
  /\ peer = NoPeer
  /\ pkg = PackageTables
  /\ recovered = FALSE

NewChunkerStep ==
  /\ pc = "new"
  /\ \E r \in {NewChunker(EmptySource, call.averageSize, call.opts)} :
       /\ chunker' = r.chunker
       /\ err' = r.err
  /\ pc' = "built"
  /\ UNCHANGED <<call, results, resets, peer, pkg, recovered>>

NextCfg == NewChunkerStep

SpecCfg == InitCfg /\ [][NextCfg]_vars

\* ------------------------------------------------------------------------
\* Two Chunkers of one process, their calls interleaved
\* ------------------------------------------------------------------------
\* Next calls made on the second Chunker's stream
MaxPeerCalls == 4

PairCalls ==
  { Call(64,  <<Opt("WithMinSize", 64), Opt("WithMaxSize", 80),
                Opt("WithNormalization", 0), Opt("WithBufferSize", 81)>>),
    Call(64,  <<Opt("WithMinSize", 64), Opt("WithMaxSize", 80),
                Opt("WithNormalization", 1), Opt("WithSeed", ToU64(4660))>>) }

PairSources ==
  { Source(Pattern(5, MaxLen), <<7>>, FALSE, NoFail, "EOF"),
    Source(Pattern(34, MaxLen), <<MaxLen + 1>>, FALSE, NoFail, "EOF") }

PeerSources == { Source(Pattern(34, MaxLen), <<1, 64, 3>>, TRUE, NoFail, "EOF") }

PairResetSources == { Source(Pattern(61, MaxLen), <<7>>, FALSE, NoFail, "EOF") }

\* the seed a call asks for
SeedOf(cl) == ApplyOptions(NewOptions(cl.averageSize), cl.opts).seed

\* a copy of a package table, XORed with the seed when there is one
SeedTable(table, seed, mask) ==
  IF seed # Zero64
  THEN [i \in 1..256 |-> Xor64(table[i], mask)]
  ELSE table

\* NewChunker reading the package-level tables as they are now
NewChunkerFrom(tables, rd, cl) ==
  [NewChunker(rd, cl.averageSize, cl.opts) EXCEPT
     !.chunker.gear = SeedTable(tables.gear, SeedOf(cl), SeedOf(cl)),
     !.chunker.gearShifted =
        SeedTable(tables.gearShifted, SeedOf(cl), Shl64(SeedOf(cl), 1))]

\* faulty variant of PackageAfterNewChunker: the seed is applied to the
\* package-level tables themselves
PackageSeededInPlace(tables, seed) ==
  [gear |-> SeedTable(tables.gear, seed, seed),
   gearShifted |-> SeedTable(tables.gearShifted, seed, Shl64(seed, 1))]

\* the package-level tables once NewChunker has returned: seedGear and
\* seedGearShifted are arrays of their own, gear and gearShifted are only read
PackageAfterNewChunker(tables, seed) == tables

InitPair ==
  /\ pc = "new"
  /\ call \in PairCalls
  /\ chunker = NilChunker
  /\ err = "nil"
  /\ results = <<>>
  /\ resets = 0
  /\ \E cl \in PairCalls : peer = [NoPeer EXCEPT !.call = cl]
  /\ pkg = PackageTables
  /\ recovered = FALSE

NewChunkerPair ==
  /\ pc = "new"
  /\ \E rd \in PairSources :
       \E r \in {NewChunkerFrom(pkg, rd, call)} :
          /\ chunker' = r.chunker
          /\ err' = r.err
  /\ pkg' = PackageAfterNewChunker(pkg, SeedOf(call))
  /\ pc' = "built"
  /\ UNCHANGED <<call, results, resets, peer, recovered>>

NewChunkerPeer ==
  /\ peer.chunker = NilChunker
  /\ \E rd \in PeerSources :
       peer' = [peer EXCEPT !.chunker = NewChunkerFrom(pkg, rd, peer.call).chunker]
  /\ pkg' = PackageAfterNewChunker(pkg, SeedOf(peer.call))
  /\ UNCHANGED <<pc, call, chunker, err, results, resets, recovered>>

ResetPair ==
  /\ pc = "built"
  /\ resets < MaxResets
  /\ \E rd \in PairResetSources : chunker' = Reset(chunker, rd)
  /\ results' = <<>>
  /\ resets' = resets + 1
  /\ recovered' = (\E i \in 1..Len(results) : results[i].err \notin {"nil", "EOF"})
  /\ UNCHANGED <<pc, call, err, peer, pkg>>

NextPeer ==
  /\ peer.chunker # NilChunker
  /\ Len(peer.results) < MaxPeerCalls
  /\ \E r \in {ChunkerNext(peer.chunker)} :
       peer' = [peer EXCEPT
                  !.chunker = r.c,
                  !.results = Append(peer.results,
                                     [chunk |-> r.chunk, err |-> r.err])]
  /\ UNCHANGED <<pc, call, chunker, err, results, resets, pkg, recovered>>

ResetPeer ==
  /\ peer.chunker # NilChunker
  /\ peer.resets < MaxResets
  /\ \E rd \in PairResetSources :
       peer' = [peer EXCEPT !.chunker = Reset(peer.chunker, rd),
                           !.results = <<>>,
                           !.resets = peer.resets + 1]
  /\ UNCHANGED <<pc, call, chunker, err, results, resets, pkg, recovered>>

NextPair ==
  \/ NewChunkerPair
  \/ NewChunkerPeer
  \/ NextStep
  \/ ResetPair
  \/ NextPeer
  \/ ResetPeer

SpecPair == InitPair /\ [][NextPair]_vars

\* ------------------------------------------------------------------------
\* The caller's loop: Next is called until it returns an error or io.EOF
\* ------------------------------------------------------------------------
\* the loop may go on: no call was made yet or the latest returned a chunk.
\* A stream of n bytes has at most n chunks of one byte or more, so n + 1
\* calls reach its end if any number of calls does
DrainGuard ==
  /\ pc = "built"
  /\ chunker # NilChunker
  /\ IF results = <<>> THEN TRUE ELSE results[Len(results)].err = "nil"
  /\ Len(results) <= Len(chunker.reader.content)

DrainStep ==
  /\ DrainGuard
  /\ \E r \in {ChunkerNext(chunker)} :
       /\ chunker' = r.c
       /\ results' = Append(results, [chunk |-> r.chunk, err |-> r.err])
  /\ UNCHANGED <<pc, call, err, resets, peer, pkg, recovered>>

NextDrain == DrainStep

\* one more call of Next is made and returns: results grows by one entry.
\* Next returns from every state, so a step of this kind is possible whenever
\* the loop may go on; the first disjunct is one such step, a call that
\* returns io.EOF
DrainCall ==
  /\ DrainGuard
  /\ \/ /\ results' = Append(results, [chunk |-> EmptyChunk, err |-> "EOF"])
        /\ UNCHANGED <<pc, call, chunker, err, resets, peer, pkg, recovered>>
     \/ Len(results') = Len(results) + 1

\* the loop goes on while it can: every Next call returns, and the caller
\* calls again unless the call returned an error or io.EOF
SpecDrain == Init /\ [][NextDrain]_vars /\ WF_vars(DrainCall)

\* ------------------------------------------------------------------------
\* Vocabulary of the properties
\* ------------------------------------------------------------------------
\* an error that is neither success nor the end-of-stream signal
OperationalError(e) == e # "nil" /\ e # "EOF"

\* the Next calls so far that returned a chunk
ChunksOf(rs) == SelectSeq(rs, LAMBDA x : x.err = "nil")

\* no Next call so far returned an operational error
CleanRun(rs) == \A i \in 1..Len(rs) : ~OperationalError(rs[i].err)

\* no Next call before the latest returned an operational error
CleanBeforeLast(rs) == \A i \in 1..(Len(rs) - 1) : ~OperationalError(rs[i].err)

\* the bytes a source delivers over its lifetime
Delivered(r) == SubSeq(r.content, 1, SourceLimit(r))

\* a source that ends with io.EOF after all of its content
IsCleanSource(r) == r.failAt = NoFail

RECURSIVE ConcatData(_)
ConcatData(rs) ==
  IF rs = <<>> THEN <<>> ELSE Head(rs).chunk.Data \o ConcatData(Tail(rs))

\* what n successive Next calls on c return
RECURSIVE RunChunker(_, _)
RECURSIVE RunMore(_, _)
RunChunker(c, n) ==
  IF n = 0 THEN <<>>
  ELSE RunMore(ChunkerNext(c), n)

RunMore(r, n) ==
  <<[chunk |-> r.chunk, err |-> r.err]>> \o RunChunker(r.c, n - 1)

\* a Chunker freshly constructed with the configuration of the current one
FreshChunker(rd) == NewChunker(rd, call.averageSize, call.opts).chunker

\* the source as it was handed over: nothing read yet
Rewind(r) == [r EXCEPT !.pos = 0, !.reads = 0, !.lastErr = "nil"]

LastOf(s) == s[Len(s)]

\* ------------------------------------------------------------------------
\* Properties
\* ------------------------------------------------------------------------
\* C1 (Reconstruction): as long as no Next call has returned an operational
\* error, the Data of the chunks returned so far, concatenated in order, is
\* the prefix of the source's bytes that ends at the stream position, and
\* once Next has signalled end-of-stream it is all of the source's bytes.
Reconstruction ==
  (pc = "built" /\ CleanRun(results)) =>
     LET all == ConcatData(results)
         src == Delivered(chunker.reader)
     IN  /\ Len(all) <= Len(src)
         /\ all = SubSeq(src, 1, Len(all))
         /\ (results # <<>> /\ LastOf(results).err = "EOF") => all = src

\* a stream longer than the buffer, delivered in partial reads, has been
\* chunked into at least three chunks and has ended
ReconstructionWitness ==
  /\ pc = "built"
  /\ IsCleanSource(chunker.reader)
  /\ Len(chunker.reader.content) > chunker.buf.len
  /\ Len(chunker.reader.steps) = 3
  /\ Len(ChunksOf(results)) >= 3
  /\ LastOf(results).err = "EOF"
  /\ ConcatData(results) = chunker.reader.content

\* C2 (Offset continuity): the first chunk returned after construction or
\* Reset has Offset 0, every later chunk starts where the previous one ended,
\* and every chunk has a positive Length, so offsets strictly increase.
OffsetContinuity ==
  LET ch == ChunksOf(results)
  IN  /\ (ch # <<>> => ch[1].chunk.Offset = 0)
      /\ \A i \in 1..Len(ch) :
           /\ ch[i].chunk.Length > 0
           /\ i < Len(ch) =>
                ch[i + 1].chunk.Offset = ch[i].chunk.Offset + ch[i].chunk.Length

\* three chunks have been returned after a Reset, the third not at offset 0
OffsetContinuityWitness ==
  LET ch == ChunksOf(results)
  IN  /\ resets = 1
      /\ Len(ch) >= 3
      /\ ch[3].chunk.Offset = ch[1].chunk.Length + ch[2].chunk.Length
      /\ ch[2].chunk.Length # ch[1].chunk.Length

\* C3 (Bounds): in a run without operational error every chunk is at most
\* maxSize long, and every chunk that does not end the stream (every chunk
\* but the terminal remainder) is at least minSize long.
ChunkBounds ==
  (pc = "built" /\ CleanRun(results)) =>
     \A i \in 1..Len(results) :
        results[i].err = "nil" =>
          /\ results[i].chunk.Length <= chunker.maxSize
          /\ (results[i].chunk.Offset + results[i].chunk.Length
                < Len(Delivered(chunker.reader)))
               => results[i].chunk.Length >= chunker.minSize

\* the canonical source of some content: one Read delivers all of it, the
\* next one reports io.EOF
WholeRead(content) == Source(content, <<Len(content) + 1>>, FALSE, NoFail, "EOF")

LengthsAndFingerprints(rs) ==
  [i \in 1..Len(rs) |->
     <<rs[i].chunk.Length, rs[i].chunk.Fingerprint, rs[i].err>>]

\* C4 (Determinism): whatever the sizes of the source's individual reads,
\* the (Length, Fingerprint) pairs returned so far are those a Chunker of the
\* same configuration returns for the same content delivered by one Read.
Determinism ==
  (pc = "built" /\ IsCleanSource(chunker.reader)) =>
     LengthsAndFingerprints(results) =
       LengthsAndFingerprints(
         RunChunker(FreshChunker(WholeRead(chunker.reader.content)),
                    Len(results)))

\* a stream delivered in reads of 1, 64 and 3 bytes has been chunked to its
\* end, two of the chunks found by a mask test
DeterminismWitness ==
  /\ pc = "built"
  /\ IsCleanSource(chunker.reader)
  /\ chunker.reader.steps = <<1, 64, 3>>
  /\ chunker.reader.reads > 3
  /\ Len(results) >= 4
  /\ LastOf(results).err = "EOF"
  /\ results[1].chunk.Fingerprint # Zero64
  /\ results[1].chunk.Length < chunker.maxSize
  /\ results[2].chunk.Length < chunker.maxSize
  /\ results[2].chunk.Length # results[1].chunk.Length

\* C5 (Reset equivalence): after Reset(newSource), what Next returns (up to
\* and including its first operational error, if any) is exactly what a
\* freshly constructed Chunker of the same configuration returns for the
\* same source.
ResetEquivalence ==
  (pc = "built" /\ resets > 0 /\ CleanBeforeLast(results)) =>
     results = RunChunker(FreshChunker(Rewind(chunker.reader)), Len(results))

\* after a Reset a shorter stream has been read to its end while the buffer
\* still holds bytes of the stream read before the Reset
ResetEquivalenceWitness ==
  /\ pc = "built"
  /\ resets = 1
  /\ Len(chunker.reader.content) = ShortLen
  /\ Len(chunker.buf.bytes) > ShortLen
  /\ Len(results) = 2
  /\ results[1].chunk.Data = chunker.reader.content
  /\ results[2].err = "EOF"

\* C6 (Operational error propagation): a Next call during which the source's
\* Read returned an error other than io.EOF returns that error and the empty
\* Chunk.
ErrorPropagation ==
  [][(/\ Len(results') = Len(results) + 1
      /\ chunker'.reader.reads > chunker.reader.reads
      /\ OperationalError(chunker'.reader.lastErr))
       => LastOf(results') =
            [chunk |-> EmptyChunk, err |-> chunker'.reader.lastErr]]_vars

\* C9 (Empty input): on a source that delivers no byte and then io.EOF,
\* every Next call returns io.EOF and the empty Chunk, the first one included.
EmptyInput ==
  (pc = "built" /\ IsCleanSource(chunker.reader)
                /\ chunker.reader.content = <<>>) =>
     \A i \in 1..Len(results) :
        results[i] = [chunk |-> EmptyChunk, err |-> "EOF"]

\* Next has been called twice on an empty source
EmptyInputWitness ==
  /\ pc = "built"
  /\ IsCleanSource(chunker.reader)
  /\ chunker.reader.content = <<>>
  /\ chunker.reader.reads > 0
  /\ Len(results) >= 2
  /\ results[1].err = "EOF"

\* C10 (Short input): on a source that delivers n bytes, 0 < n < minSize,
\* and then io.EOF, the first Next returns the chunk (Offset 0, Length n,
\* Data = the input, Fingerprint 0) and the second Next returns io.EOF.
ShortInput ==
  (pc = "built" /\ IsCleanSource(chunker.reader)
                /\ chunker.reader.content # <<>>
                /\ Len(chunker.reader.content) < chunker.minSize) =>
     /\ Len(results) >= 1 =>
          results[1] = [chunk |-> [Offset |-> 0,
                                   Length |-> Len(chunker.reader.content),
                                   Data |-> chunker.reader.content,
                                   Fingerprint |-> Zero64],
                        err |-> "nil"]
     /\ Len(results) >= 2 =>
          results[2] = [chunk |-> EmptyChunk, err |-> "EOF"]

\* an input one byte shorter than minSize, delivered 7 bytes at a time, has
\* been returned as one chunk and the stream has ended
ShortInputWitness ==
  /\ pc = "built"
  /\ IsCleanSource(chunker.reader)
  /\ Len(chunker.reader.content) = chunker.minSize - 1
  /\ chunker.reader.steps = <<7>>
  /\ Len(results) >= 2
  /\ results[1].chunk.Length = chunker.minSize - 1
  /\ results[2].err = "EOF"

\* the configuration NewChunker resolves its arguments to: overrides
\* applied, then unset fields defaulted
Resolved == setDefaults(ApplyOptions(NewOptions(call.averageSize), call.opts))

InSizeRange(x) == 64 <= x /\ x <= 2 ^ 30

IsPowerOfTwo(x) == \E k \in 0..30 : x = 2 ^ k

\* the normalization level in force: 0 when normalization is disabled
LevelOf(o) == IF o.disableNormalization THEN 0 ELSE o.normalization

\* the conditions under which a resolved configuration is to be rejected
Rejected(o) ==
  \/ ~IsPowerOfTwo(o.averageSize)
  \/ ~InSizeRange(o.averageSize)
  \/ ~InSizeRange(o.minSize)
  \/ ~InSizeRange(o.maxSize)
  \/ o.maxSize <= o.minSize
  \/ o.averageSize < o.minSize
  \/ o.averageSize > o.maxSize
  \/ (~o.disableNormalization /\ o.normalization \notin {0, 1, 2, 3})
  \/ o.bufSize <= o.maxSize
  \/ \E k \in 0..30 :
       /\ o.averageSize = 2 ^ k
       /\ (k + LevelOf(o) > 25 \/ k - LevelOf(o) < 5)

\* C7 (Validation is exact and atomic): NewChunker returns an error and the
\* nil Chunker exactly when the resolved configuration meets one of the
\* rejection conditions, and a Chunker and the nil error otherwise.
ValidationExact ==
  pc = "built" =>
     IF Rejected(Resolved)
     THEN err # "nil" /\ chunker = NilChunker
     ELSE err = "nil" /\ chunker # NilChunker

\* a call rejected for its mask bit-widths alone, the buffer one byte larger
\* than maxSize
ValidationExactWitness ==
  /\ pc = "built"
  /\ call.averageSize = 2 ^ 23
  /\ Resolved.normalization = 3
  /\ Resolved.bufSize = Resolved.maxSize + 1
  /\ Rejected(Resolved)
  /\ err = "AverageSize/Normalization combination exceeds mask table bounds"
  /\ chunker = NilChunker

HasOption(kind) == \E i \in 1..Len(call.opts) : call.opts[i].kind = kind

HasOptionValue(kind, val) ==
  \E i \in 1..Len(call.opts) : call.opts[i] = Opt(kind, val)

\* log2 of a power of two
Log2(x) == CHOOSE k \in 0..30 : x = 2 ^ k

\* C8 (Defaults): a constructed Chunker has minSize = averageSize / 4,
\* maxSize = averageSize * 4, a buffer of twice its maxSize, the masks of
\* normalization level 2 and the package's own gear tables (seed 0),
\* each where the option that sets it is not supplied; with
\* WithNormalization(0) both masks are the one of log2(averageSize).
Defaults ==
  (pc = "built" /\ chunker # NilChunker) =>
     /\ ~HasOption("WithMinSize") => chunker.minSize = call.averageSize \div 4
     /\ ~HasOption("WithMaxSize") => chunker.maxSize = call.averageSize * 4
     /\ ~HasOption("WithBufferSize") => chunker.buf.len = 2 * chunker.maxSize
     /\ ~HasOption("WithNormalization") =>
          /\ chunker.maskSmall = masks[Log2(call.averageSize) + 2 + 1]
          /\ chunker.maskLarge = masks[Log2(call.averageSize) - 2 + 1]
     /\ ~HasOption("WithSeed") =>
          /\ chunker.gear = gear
          /\ chunker.gearShifted = gearShifted
     /\ HasOptionValue("WithNormalization", 0) =>
          /\ chunker.maskSmall = masks[Log2(call.averageSize) + 1]
          /\ chunker.maskLarge = masks[Log2(call.averageSize) + 1]

\* a Chunker constructed from the average size alone
DefaultsWitness ==
  /\ pc = "built"
  /\ call.opts = <<>>
  /\ chunker # NilChunker
  /\ chunker.minSize = 64
  /\ chunker.buf.len = 2048

\* a Chunker constructed with WithNormalization(0) and an overridden maxSize
DefaultsDisabledWitness ==
  /\ pc = "built"
  /\ chunker # NilChunker
  /\ HasOptionValue("WithNormalization", 0)
  /\ HasOption("WithMaxSize")
  /\ ~HasOption("WithBufferSize")
  /\ chunker.maskSmall = chunker.maskLarge

\* C11 (Chunk well-formedness): every chunk Next returned with a nil error
\* has Offset >= 0, Length > 0 and exactly Length bytes of Data; Next never
\* returns a zero-length chunk with a nil error.
WellFormed ==
  \A i \in 1..Len(results) :
     results[i].err = "nil" =>
        /\ results[i].chunk.Offset >= 0
        /\ results[i].chunk.Length > 0
        /\ Len(results[i].chunk.Data) = results[i].chunk.Length

\* a chunk cut before the end of a window that holds more bytes, and a later
\* chunk at a positive Offset
WellFormedWitness ==
  /\ Len(results) >= 2
  /\ results[1].err = "nil"
  /\ results[2].err = "nil"
  /\ results[2].chunk.Offset > 0
  /\ chunker.bufEnd > chunker.bufCursor
  /\ Len(results[2].chunk.Data) = results[2].chunk.Length

\* the masks of c are those of a normalization level from 0 to 3
LevelInForce(c) ==
  \E n \in 0..3 :
     /\ Log2(c.normalizeSize) - n >= 0
     /\ Log2(c.normalizeSize) + n <= 25
     /\ c.maskSmall = masks[Log2(c.normalizeSize) + n + 1]
     /\ c.maskLarge = masks[Log2(c.normalizeSize) - n + 1]

\* C12 as stated (Configuration invariant): every Chunker NewChunker returns
\* without error has minSize < averageSize <= maxSize < bufferSize and the
\* masks of a normalization level in {0, 1, 2, 3}.
ConfigInvariantStrict ==
  (pc = "built" /\ chunker # NilChunker) =>
     /\ chunker.minSize < chunker.normalizeSize
     /\ chunker.normalizeSize <= chunker.maxSize
     /\ chunker.maxSize < chunker.buf.len
     /\ LevelInForce(chunker)

\* C12 (Configuration invariant, amended): every Chunker NewChunker returns
\* without error has minSize <= averageSize <= maxSize < bufferSize and
\* minSize < maxSize, and the masks of a normalization level in
\* {0, 1, 2, 3}; minSize may equal averageSize.
ConfigInvariant ==
  (pc = "built" /\ chunker # NilChunker) =>
     /\ err = "nil"
     /\ chunker.minSize <= chunker.normalizeSize
     /\ chunker.normalizeSize <= chunker.maxSize
     /\ chunker.minSize < chunker.maxSize
     /\ chunker.maxSize < chunker.buf.len
     /\ LevelInForce(chunker)

\* a Chunker constructed with minSize equal to averageSize
ConfigInvariantWitness ==
  /\ pc = "built"
  /\ chunker # NilChunker
  /\ err = "nil"
  /\ HasOptionValue("WithMinSize", 64)
  /\ call.averageSize = 64
  /\ chunker.minSize = chunker.normalizeSize
  /\ chunker.maxSize > chunker.normalizeSize

\* C13 (Overrides are validated as given): when a value passed to
\* WithMinSize or WithMaxSize lies outside [64, 2^30], or a value passed to
\* WithBufferSize is at most the maxSize in force, NewChunker returns an
\* error and no Chunker.
OverridesValidated ==
  pc = "built" =>
     \A i \in 1..Len(call.opts) :
        (\/ /\ call.opts[i].kind \in {"WithMinSize", "WithMaxSize"}
            /\ ~InSizeRange(call.opts[i].val)
         \/ /\ call.opts[i].kind = "WithBufferSize"
            /\ call.opts[i].val <= Resolved.maxSize)
        => (err # "nil" /\ chunker = NilChunker)

\* the bit-widths the resolved configuration asks the mask table for
SmallBitsOf(o) == Log2(o.averageSize) + LevelOf(o)

LargeBitsOf(o) == Log2(o.averageSize) - LevelOf(o)

\* C14 (Mask lookup is bounds-checked): for a constructed Chunker both
\* bit-widths lie in 5..25 and its masks are the table's entries for them,
\* neither a zero padding entry; a call that passes validation with a
\* bit-width outside 5..25 returns the mask-bounds error and no Chunker.
MaskLookupChecked ==
  (pc = "built" /\ IsPowerOfTwo(call.averageSize)) =>
     /\ chunker # NilChunker =>
          /\ SmallBitsOf(Resolved) \in 5..25
          /\ LargeBitsOf(Resolved) \in 5..25
          /\ chunker.maskSmall = masks[SmallBitsOf(Resolved) + 1]
          /\ chunker.maskLarge = masks[LargeBitsOf(Resolved) + 1]
          /\ chunker.maskSmall # Zero64
          /\ chunker.maskLarge # Zero64
     /\ (SmallBitsOf(Resolved) \notin 5..25 \/ LargeBitsOf(Resolved) \notin 5..25)
          => (err # "nil" /\ chunker = NilChunker)
     /\ (validate(Resolved) = "nil"
         /\ (SmallBitsOf(Resolved) > 25 \/ LargeBitsOf(Resolved) < 5))
          => err = "AverageSize/Normalization combination exceeds mask table bounds"

\* a call whose large bit-width is 4 (averageSize 128, level 3) has been
\* rejected with the mask-bounds error
MaskLookupCheckedWitness ==
  /\ pc = "built"
  /\ call.averageSize = 128
  /\ HasOptionValue("WithNormalization", 3)
  /\ validate(Resolved) = "nil"
  /\ LargeBitsOf(Resolved) = 4
  /\ chunker = NilChunker
  /\ err = "AverageSize/Normalization combination exceeds mask table bounds"

\* the source's bytes are one repeated value
IsConstant(d) == d # <<>> /\ \A i \in 1..Len(d) : d[i] = d[1]

\* every chunk returned so far has Length maxSize, or is the shorter
\* remainder that ends the stream
Saturated ==
  \A i \in 1..Len(results) :
     results[i].err = "nil" =>
        \/ results[i].chunk.Length = chunker.maxSize
        \/ /\ results[i].chunk.Length < chunker.maxSize
           /\ results[i].chunk.Offset + results[i].chunk.Length
                = Len(chunker.reader.content)

\* C15 as stated (Constant-byte saturation): over a source of one repeated
\* byte value, with normalization enabled, every chunk has Length maxSize
\* except possibly a shorter final remainder.
ConstantByteSaturation ==
  (/\ pc = "built"
   /\ IsCleanSource(chunker.reader)
   /\ IsConstant(chunker.reader.content)
   /\ LevelOf(Resolved) > 0) => Saturated

\* C15 (Constant-byte saturation, amended): over an all-zero source, with
\* normalization enabled, no seed and neither mask bit-width equal to 5, 6
\* or 8, every chunk has Length maxSize except possibly a shorter final
\* remainder.
ZeroSaturation ==
  (/\ pc = "built"
   /\ IsCleanSource(chunker.reader)
   /\ IsConstant(chunker.reader.content)
   /\ chunker.reader.content[1] = 0
   /\ LevelOf(Resolved) > 0
   /\ Resolved.seed = Zero64
   /\ SmallBitsOf(Resolved) \notin {5, 6, 8}
   /\ LargeBitsOf(Resolved) \notin {5, 6, 8}) => Saturated

\* 600 zero bytes have been returned as two chunks of maxSize = 270 bytes
\* and a remainder of 60, by a Chunker with normalization level 1
ZeroSaturationWitness ==
  /\ pc = "built"
  /\ IsCleanSource(chunker.reader)
  /\ chunker.reader.content = Repeated(0, ConstLen)
  /\ LevelOf(Resolved) = 1
  /\ Resolved.seed = Zero64
  /\ SmallBitsOf(Resolved) = 9
  /\ LargeBitsOf(Resolved) = 7
  /\ Len(results) = 4
  /\ results[1].chunk.Length = chunker.maxSize
  /\ results[2].chunk.Length = chunker.maxSize
  /\ results[3].chunk.Length = ConstLen - 2 * chunker.maxSize
  /\ results[4].err = "EOF"

\* what the Chunker c, constructed by the call cl, returns for n Next calls
\* on its current source when it is the only Chunker of the process
Alone(c, cl, n) ==
  RunChunker(NewChunker(Rewind(c.reader), cl.averageSize, cl.opts).chunker, n)

\* C17 (Instance independence): however the NewChunker, Next and Reset calls
\* of two Chunkers interleave, each has returned on its current source what
\* it returns when run alone, and the package-level gear tables are as the
\* package's init left them.
InstanceIndependence ==
  /\ pkg = PackageTables
  /\ (chunker # NilChunker /\ CleanBeforeLast(results)) =>
        results = Alone(chunker, call, Len(results))
  /\ (peer.chunker # NilChunker /\ CleanBeforeLast(peer.results)) =>
        peer.results = Alone(peer.chunker, peer.call, Len(peer.results))

\* a seeded Chunker was constructed and has returned chunks, then an unseeded
\* one was constructed and both have returned chunks of their own streams
InstanceIndependenceWitness ==
  /\ chunker # NilChunker
  /\ peer.chunker # NilChunker
  /\ SeedOf(call) # Zero64
  /\ SeedOf(peer.call) = Zero64
  /\ chunker.gear # gear
  /\ peer.chunker.gear = gear
  /\ chunker.reader.content # peer.chunker.reader.content
  /\ Len(ChunksOf(results)) >= 2
  /\ Len(ChunksOf(peer.results)) >= 2
  /\ resets = 1

\* the length of the valid window c.buf[c.bufCursor:c.bufEnd]
RegionLen(c) == c.bufEnd - c.bufCursor

\* Next, after the fillBuffer call that left fb, hands a region to cut
HandsRegion(fb) == fb.err = "nil" /\ fb.c.bufEnd # 0

\* the region f holds is the rest of the source's bytes from the stream
\* position on
HoldsRemainder(f) ==
  BufSlice(f.buf, f.bufCursor, f.bufEnd)
    = SubSeq(Delivered(f.reader), f.streamPos + 1, Len(Delivered(f.reader)))

\* what C18 asks of the region a Next call hands to cut (fb is what the
\* call's fillBuffer left)
RegionSufficient(fb, clean) ==
  HandsRegion(fb) =>
     /\ ~fb.c.readerEOF => RegionLen(fb.c) >= fb.c.maxSize
     /\ RegionLen(fb.c) < fb.c.maxSize =>
          /\ fb.c.readerEOF
          /\ clean => HoldsRemainder(fb.c)

\* C18 (Never starved): in every reachable state, the region the next Next
\* call hands to cut has at least maxSize bytes unless the end of the source
\* has been observed; a shorter region is handed over only after that, and
\* in a run without operational error it is all the rest of the stream.
NeverStarved ==
  (pc = "built" /\ chunker # NilChunker) =>
     RegionSufficient(fillBuffer(chunker), CleanRun(results))

\* chunks have been returned, and the next Next call observes the end of the
\* source and hands over a non-empty remainder shorter than maxSize
NeverStarvedWitness ==
  /\ pc = "built"
  /\ Len(ChunksOf(results)) >= 2
  /\ CleanRun(results)
  /\ ~chunker.readerEOF
  /\ fillBuffer(chunker).c.readerEOF
  /\ HandsRegion(fillBuffer(chunker))
  /\ RegionLen(fillBuffer(chunker).c) < chunker.maxSize
  /\ RegionLen(fillBuffer(chunker).c) > 0
  /\ chunker.streamPos > chunker.buf.len
  /\ HoldsRemainder(fillBuffer(chunker).c)

\* the Next call that returned r was the last to return a chunk
ThenEndOfStream(r) ==
  /\ r.err = "nil"
  /\ r.chunk.Fingerprint = Zero64
  /\ r.c.streamPos = Len(Delivered(r.c.reader))
  /\ ChunkerNext(r.c).err = "EOF"

\* what C19 asks of a Next call (fb is what the call's fillBuffer left)
SentinelTerminal(fb) ==
  (HandsRegion(fb) /\ RegionLen(fb.c) <= fb.c.minSize) =>
     ThenEndOfStream(NextFilled(fb))

\* C19 (Fingerprint-0 sentinel path is terminal only): in every reachable
\* state, if the next Next call hands cut a region of at most minSize bytes,
\* the chunk it returns ends the stream and the Next call after it returns
\* end-of-stream.
SentinelPathTerminal ==
  (pc = "built" /\ chunker # NilChunker) => SentinelTerminal(fillBuffer(chunker))

\* after chunks of a longer stream, a remainder of at most minSize bytes has
\* been returned with fingerprint 0 and the next call has returned
\* end-of-stream
SentinelPathTerminalWitness ==
  /\ pc = "built"
  /\ Len(results) >= 4
  /\ results[Len(results) - 1].err = "nil"
  /\ results[Len(results) - 1].chunk.Offset > 0
  /\ results[Len(results) - 1].chunk.Length <= chunker.minSize
  /\ results[Len(results) - 1].chunk.Fingerprint = Zero64
  /\ results[Len(results) - 2].chunk.Fingerprint # Zero64
  /\ LastOf(results).err = "EOF"

\* the step is a Next call on the Chunker
NextCalled == Len(results') = Len(results) + 1

\* C20 (Exhaustion is absorbing): a Next call made once the end of the
\* source has been observed leaves the source untouched, and a Next call
\* made after Next has returned end-of-stream returns end-of-stream and no
\* chunk.
ExhaustionAbsorbing ==
  [][NextCalled =>
       /\ chunker.readerEOF =>
            /\ chunker'.reader = chunker.reader
            /\ chunker'.readerEOF
       /\ (results # <<>> /\ LastOf(results).err = "EOF") =>
            LastOf(results') = [chunk |-> EmptyChunk, err |-> "EOF"]]_vars

\* after a chunk, Next has returned end-of-stream three times in a row
ExhaustionAbsorbingWitness ==
  /\ pc = "built"
  /\ Len(results) >= 4
  /\ results[Len(results) - 3].err = "nil"
  /\ results[Len(results) - 2].err = "EOF"
  /\ results[Len(results) - 1].err = "EOF"
  /\ LastOf(results).err = "EOF"
  /\ chunker.readerEOF
  /\ chunker.reader.reads > 0

\* the Next call on c reads the source
ReadsSource(c) == RegionLen(c) < c.maxSize /\ ~c.readerEOF

\* the bytes fillBuffer asks the source for
Wanted(c) == c.buf.len - RegionLen(c)

\* the source's end was taken as observed: flag set, window cut back to the
\* got bytes that follow the kept ones, source left as rd left it
TakenAsEnd(c, after, got, rd) ==
  /\ after.readerEOF
  /\ after.bufEnd = RegionLen(c) + got
  /\ after.reader = rd

\* C21 as stated (Short read means end-of-source): when the first Read of a
\* Next call returns fewer bytes than requested, the exhaustion flag is set,
\* the window ends with the bytes obtained and no further Read is issued.
ShortReadIsEnd ==
  [][(NextCalled /\ ReadsSource(chunker)
      /\ Read(chunker.reader, Wanted(chunker)).n < Wanted(chunker)) =>
        TakenAsEnd(chunker, chunker',
                   Read(chunker.reader, Wanted(chunker)).n,
                   Read(chunker.reader, Wanted(chunker)).reader)]_vars

\* what the amended C21 asks of a Next call that reads the source (rf is
\* what its io.ReadFull call returns)
ShortFill(c, after, rf, ret) ==
  /\ (rf.n < Wanted(c) /\ rf.err \in {"EOF", "ErrUnexpectedEOF"}) =>
        TakenAsEnd(c, after, rf.n, rf.reader)
  /\ rf.n = Wanted(c) => (~after.readerEOF /\ after.reader = rf.reader)
  /\ (rf.n < Wanted(c) /\ rf.err \notin {"EOF", "ErrUnexpectedEOF"}) =>
        (~after.readerEOF /\ ret.err = rf.err)

\* C21 (Short read means end-of-source, amended): when io.ReadFull, which
\* repeats Read until the buffer is full, ends with fewer bytes than
\* requested and io.EOF or io.ErrUnexpectedEOF, the exhaustion flag is set,
\* the window ends with the bytes obtained and the source is not read
\* again; a full buffer does not set the flag, whatever the sizes of the
\* single Reads, and any other error is returned.
ShortFillIsEnd ==
  [][(NextCalled /\ ReadsSource(chunker)) =>
        ShortFill(chunker, chunker',
                  ReadFull(chunker.reader, Wanted(chunker)),
                  LastOf(results'))]_vars

\* a source read 7 bytes at a time has filled the buffer more than once
\* without the flag being set, and the fill that reached its end has set it
ShortFillIsEndWitness ==
  /\ pc = "built"
  /\ IsCleanSource(chunker.reader)
  /\ chunker.reader.steps = <<7>>
  /\ Len(chunker.reader.content) > 2 * chunker.buf.len
  /\ chunker.reader.reads > 20
  /\ chunker.readerEOF
  /\ chunker.reader.pos = Len(chunker.reader.content)
  /\ Len(ChunksOf(results)) >= 3

\* C22 (Reset recovers from an operational error): after a Reset that
\* followed a Next call which returned a read error, the Chunker is at
\* stream position 0 with the exhaustion flag clear and an empty window, and
\* what Next returns for the new source (up to and including its first
\* operational error, if any) is what a freshly constructed Chunker of the
\* same configuration returns, so every chunk holds bytes of the new source
\* only.
ResetRecovers ==
  (pc = "built" /\ recovered /\ CleanBeforeLast(results)) =>
     /\ results = RunChunker(FreshChunker(Rewind(chunker.reader)), Len(results))
     /\ results = <<>> =>
          /\ chunker.streamPos = 0
          /\ ~chunker.readerEOF
          /\ chunker.bufCursor = chunker.bufEnd
     /\ CleanRun(results) =>
          ConcatData(results)
            = SubSeq(Delivered(chunker.reader), 1, Len(ConcatData(results)))

\* after a read error and a Reset, the new 200-byte source has been chunked
\* to its end
ResetRecoversWitness ==
  /\ pc = "built"
  /\ recovered
  /\ resets = 1
  /\ Len(chunker.reader.content) = MaxLen
  /\ IsCleanSource(chunker.reader)
  /\ Len(ChunksOf(results)) >= 2
  /\ LastOf(results).err = "EOF"
  /\ ConcatData(results) = chunker.reader.content

\* the region f hands to cut
Region(f) == BufSlice(f.buf, f.bufCursor, f.bufEnd)

\* the fingerprints the mask tests look at, index by index from the even
\* index i up to the even index to, after those in tested; fp is the
\* fingerprint on entry to the pair at i
RECURSIVE Tested(_, _, _, _, _, _)
Tested(c, data, i, to, fp, tested) ==
  IF i >= to THEN [seq |-> tested, last |-> fp]
  ELSE Tested(c, data, i + 2, to,
              Add64(Add64(Shl64(fp, 2), c.gearShifted[data[i + 1] + 1]),
                    c.gear[data[i + 2] + 1]),
              tested \o
                <<Add64(Shl64(fp, 2), c.gearShifted[data[i + 1] + 1]),
                  Add64(Add64(Shl64(fp, 2), c.gearShifted[data[i + 1] + 1]),
                        c.gear[data[i + 2] + 1])>>)

\* the mask the test at index p uses: small mask for a pair that starts
\* below normalizeAt, large mask from there on, the shifted mask on the
\* first byte of a pair
MaskAt(c, normalizeAt, p) ==
  IF RoundDownEven(p) < normalizeAt
  THEN (IF p % 2 = 0 THEN c.maskSmallShifted ELSE c.maskSmall)
  ELSE (IF p % 2 = 0 THEN c.maskLargeShifted ELSE c.maskLarge)

\* the first of the indices in hits and the fingerprint tested there, or
\* the forced cut at maxBoundary (t holds the tested fingerprints from index
\* from on)
FirstHit(from, maxBoundary, t, hits) ==
  IF hits = {}
  THEN [length |-> maxBoundary, fp |-> t.last]
  ELSE [length |-> CHOOSE p \in hits : \A q \in hits : p <= q,
        fp |-> t.seq[(CHOOSE p \in hits : \A q \in hits : p <= q) - from + 1]]

\* the indices at which the mask test fires
Hits(c, from, normalizeAt, t) ==
  {p \in from..(from + Len(t.seq) - 1) :
     And64(t.seq[p - from + 1], MaskAt(c, normalizeAt, p)) = Zero64}

PolicyOf(c, from, normalizeAt, maxBoundary, t) ==
  FirstHit(from, maxBoundary, t, Hits(c, from, normalizeAt, t))

\* the two-phase policy for a region longer than minSize
TwoPhase(c, data, maxBoundary, normalizeBoundary) ==
  PolicyOf(c, RoundDownEven(c.minSize), RoundDownEven(normalizeBoundary),
           maxBoundary,
           Tested(c, data, RoundDownEven(c.minSize),
                  RoundDownEven(maxBoundary), Zero64, <<>>))

\* what C23 asks of cut on the region data
FollowsPolicy(c, data) ==
  Len(data) > c.minSize =>
     cut(c, data) = TwoPhase(c, data, Min(Len(data), c.maxSize),
                             Min(Min(Len(data), c.maxSize), c.normalizeSize))

\* C23 (Two-phase cut-point search): in every reachable state, for the
\* region the next Next call hands to cut, if it is longer than minSize,
\* cut returns the first index from minSize rounded down to even up to
\* maxBoundary rounded down to even at which the mask test fires, with the
\* small mask for pairs starting below the rounded normalize boundary and
\* the large mask after, and the fingerprint tested there; if no test fires
\* it returns maxBoundary and the fingerprint after the last pair.
CutPolicy ==
  (pc = "built" /\ chunker # NilChunker /\ HandsRegion(fillBuffer(chunker))) =>
     FollowsPolicy(fillBuffer(chunker).c, Region(fillBuffer(chunker).c))

\* with normalization level 1, a chunk was cut by the large mask past the
\* average size and before maxSize, after an earlier chunk
CutPolicyWitness ==
  /\ pc = "built"
  /\ chunker.maskSmall # chunker.maskLarge
  /\ Len(results) >= 2
  /\ LastOf(results).err = "nil"
  /\ LastOf(results).chunk.Length > chunker.normalizeSize
  /\ LastOf(results).chunk.Length < chunker.maxSize
  /\ LastOf(results).chunk.Offset + LastOf(results).chunk.Length
       < Len(chunker.reader.content)
  /\ And64(LastOf(results).chunk.Fingerprint, chunker.maskSmall) # Zero64

\* the plain gear hash, one byte per iteration from index p < to on: the
\* first index whose fingerprint (fp << 1) + gear[b] meets the mask (small
\* below normalizeAt, large from there on), or maxBoundary
RECURSIVE PlainScan(_, _, _, _, _, _, _)
PlainScan(c, data, p, to, fp, normalizeAt, maxBoundary) ==
  IF p >= to THEN maxBoundary
  ELSE IF And64(Add64(Shl64(fp, 1), c.gear[data[p + 1] + 1]),
                IF p < normalizeAt THEN c.maskSmall ELSE c.maskLarge) = Zero64
    THEN p
  ELSE PlainScan(c, data, p + 1, to,
                 Add64(Shl64(fp, 1), c.gear[data[p + 1] + 1]),
                 normalizeAt, maxBoundary)

\* what C24 asks of cut on the region data
SameAsPlain(c, data) ==
  Len(data) > c.minSize =>
     cut(c, data).length =
       PlainScan(c, data, RoundDownEven(c.minSize),
                 RoundDownEven(Min(Len(data), c.maxSize)), Zero64,
                 RoundDownEven(Min(Min(Len(data), c.maxSize), c.normalizeSize)),
                 Min(Len(data), c.maxSize))

\* C24 (The two-byte scan is the plain gear hash): in every reachable state,
\* for the region the next Next call hands to cut, cut returns the cut
\* length of the one-byte-per-iteration scan over the same indices, which
\* uses the Chunker's base table and unshifted masks only.
PlainGearEquivalent ==
  (pc = "built" /\ chunker # NilChunker /\ HandsRegion(fillBuffer(chunker))) =>
     SameAsPlain(fillBuffer(chunker).c, Region(fillBuffer(chunker).c))

\* a seeded Chunker has cut a chunk at an even index, where the shifted
\* table and the shifted mask decided, and one at an odd index
PlainGearEquivalentWitness ==
  /\ pc = "built"
  /\ chunker.gear # gear
  /\ Len(results) >= 2
  /\ \E i \in 1..Len(results) :
       /\ results[i].err = "nil"
       /\ results[i].chunk.Length % 2 = 0
       /\ results[i].chunk.Length > chunker.minSize
       /\ results[i].chunk.Length < chunker.maxSize
       /\ results[i].chunk.Offset + results[i].chunk.Length
            < Len(chunker.reader.content)
  /\ \E i \in 1..Len(results) :
       /\ results[i].err = "nil"
       /\ results[i].chunk.Length % 2 = 1
       /\ results[i].chunk.Offset + results[i].chunk.Length
            < Len(chunker.reader.content)

\* C25 (Seeded tables): a Chunker constructed with a non-zero seed s has the
\* base table gear[i] XOR s and the shifted table gearShifted[i] XOR (s << 1)
\* mod 2^64, so its shifted table is its base table shifted left by one bit;
\* with seed 0, passed or not, both tables are the package-level ones.
SeededTables ==
  (pc = "built" /\ chunker # NilChunker) =>
     IF SeedOf(call) # Zero64
     THEN \A i \in 1..256 :
            /\ chunker.gear[i] = Xor64(gear[i], SeedOf(call))
            /\ chunker.gearShifted[i]
                 = Xor64(Shl64(gear[i], 1), Shl64(SeedOf(call), 1))
            /\ chunker.gearShifted[i] = Shl64(chunker.gear[i], 1)
     ELSE /\ chunker.gear = gear
          /\ chunker.gearShifted = gearShifted
          /\ \A i \in 1..256 : chunker.gearShifted[i] = Shl64(gear[i], 1)

\* a Chunker constructed with a seed whose top bit is set, which the shift
\* drops
SeededTablesWitness ==
  /\ pc = "built"
  /\ chunker # NilChunker
  /\ SeedOf(call) = <<1, 0, 0, 2 ^ 15>>
  /\ Shl64(SeedOf(call), 1) = <<2, 0, 0, 0>>
  /\ chunker.gear # gear
  /\ chunker.gearShifted[1] = Xor64(gearShifted[1], <<2, 0, 0, 0>>)

\* the highest index of data that cut reads when it returns ct: the index of
\* the byte whose test fired, or the last byte of the last pair; -1 when cut
\* reads no byte
LastIndexRead(c, data, ct) ==
  IF Len(data) <= c.minSize THEN 0 - 1
  ELSE IF ct.length < Min(Len(data), c.maxSize) THEN ct.length
  ELSE IF RoundDownEven(Min(Len(data), c.maxSize)) > RoundDownEven(c.minSize)
    THEN RoundDownEven(Min(Len(data), c.maxSize)) - 1
  ELSE 0 - 1

\* what C26 asks of the cut ct of the region data
CutInRange(c, data, ct) ==
  /\ 1 <= ct.length
  /\ ct.length <= Len(data)
  /\ LastIndexRead(c, data, ct) < Len(data)
  /\ Min(Len(data), c.maxSize) - 1 < Len(data)

\* C26 (No out-of-range access): between calls 0 <= bufCursor <= bufEnd <=
\* len(buf) and no byte has been written past the end of buf; the chunk the
\* next Next call cuts lies inside the valid window, and every index cut
\* reads is smaller than the length of its region.
InRange ==
  (pc = "built" /\ chunker # NilChunker) =>
     /\ 0 <= chunker.bufCursor
     /\ chunker.bufCursor <= chunker.bufEnd
     /\ chunker.bufEnd <= chunker.buf.len
     /\ Len(chunker.buf.bytes) <= chunker.buf.len
     /\ HandsRegion(fillBuffer(chunker)) =>
          CutInRange(fillBuffer(chunker).c, Region(fillBuffer(chunker).c),
                     cut(fillBuffer(chunker).c, Region(fillBuffer(chunker).c)))

\* the buffer has been filled to its last byte, compacted and refilled, and
\* the chunk returned last ended exactly at the end of the valid window,
\* short of the end of the buffer
InRangeWitness ==
  /\ pc = "built"
  /\ IsCleanSource(chunker.reader)
  /\ Len(chunker.buf.bytes) = chunker.buf.len
  /\ chunker.reader.pos > chunker.buf.len
  /\ Len(ChunksOf(results)) >= 3
  /\ LastOf(results).err = "nil"
  /\ chunker.bufCursor = chunker.bufEnd
  /\ chunker.bufEnd < chunker.buf.len
  /\ chunker.bufCursor > 0

\* other buffer sizes for a Chunker of the given maxSize: the smallest, the
\* default, and one in between
OtherBufSizes(maxSize) == {maxSize + 1, maxSize + 30, 2 * maxSize}

\* a Chunker constructed like the current one on the source rd, but with a
\* buffer of size bytes
WithBuffer(rd, size) ==
  NewChunker(rd, call.averageSize,
             call.opts \o <<Opt("WithBufferSize", size)>>).chunker

\* C27 (Buffer size does not affect the result): over a source that returns
\* no error other than end-of-stream, what Next has returned is what a
\* Chunker of the same averageSize, minSize, maxSize, normalization and seed
\* returns with any other buffer size greater than maxSize.
BufferSizeIrrelevant ==
  (pc = "built" /\ chunker # NilChunker /\ IsCleanSource(chunker.reader)) =>
     \A size \in OtherBufSizes(chunker.maxSize) :
        results = RunChunker(WithBuffer(Rewind(chunker.reader), size),
                             Len(results))

\* a stream several times the size of the smallest buffer has been chunked
\* to its end by a Chunker with that buffer
BufferSizeIrrelevantWitness ==
  /\ pc = "built"
  /\ IsCleanSource(chunker.reader)
  /\ chunker.buf.len = chunker.maxSize + 1
  /\ Len(chunker.reader.content) > 2 * chunker.buf.len
  /\ Len(ChunksOf(results)) >= 3
  /\ LastOf(results).err = "EOF"
  /\ WithBuffer(Rewind(chunker.reader), 2 * chunker.maxSize).buf.len
       = 2 * chunker.maxSize


\* ------------------------------------------------------------------------
\* C28
\* ------------------------------------------------------------------------
\* a Next call that returned a chunk moved the stream position forward by one
\* byte or more
ChunkAdvances ==
  (NextCalled /\ results'[Len(results')].err = "nil") =>
     /\ chunker'.streamPos >= chunker.streamPos + 1
     /\ chunker'.streamPos = chunker.streamPos + results'[Len(results')].chunk.Length

\* the latest Next call returned io.EOF
EndOfStream == results # <<>> /\ LastOf(results).err = "EOF"

\* C28: over a source that delivers a finite stream and then end-of-stream,
\* with no other error, repeated Next calls return finitely many chunks (no
\* more than the stream has bytes) and then io.EOF, and every Next call that
\* returns a chunk advances the stream position by at least one byte
Termination ==
  /\ [][ChunkAdvances]_vars
  /\ [](IsCleanSource(chunker.reader) =>
          /\ Len(ChunksOf(results)) <= Len(chunker.reader.content)
          /\ <>EndOfStream)

\* reached: a stream several buffers long, delivered seven bytes per Read, has
\* been returned in three chunks or more and the call after them returned
\* io.EOF
TerminationWitness ==
  /\ IsCleanSource(chunker.reader)
  /\ chunker.reader.steps = <<7>>
  /\ Len(chunker.reader.content) > 2 * chunker.buf.len
  /\ EndOfStream
  /\ Len(ChunksOf(results)) >= 3
  /\ Len(ChunksOf(results)) = Len(results) - 1
  /\ chunker.streamPos = Len(chunker.reader.content)

====
